---------------------------- MODULE Spec2Model ----------------------------
(***************************************************************************)
(* Decode-and-relay pipeline of the Mobiflight X-Plane CDU snippets.       *)
(*                                                                         *)
(* Four scripts share one shape: a Feed Client task (handle_datarefs)      *)
(* keeps the dict last_known_values up to date from the simulator's        *)
(* subscription socket and puts changed snapshots on an asyncio.Queue; a   *)
(* Display Sender task (handle_display_update) takes snapshots off the     *)
(* queue, decodes them to the 14 x 24 cell grid and sends the JSON frame   *)
(* to the display socket.                                                  *)
(*                                                                         *)
(* Representation.  A Python str is a sequence of one-character strings,   *)
(* a control character or backquote is the string of its escape "\xNN".  A *)
(* dict is a sequence of [k, v] records with distinct keys, in insertion   *)
(* order.  A dict value is a tagged record [t, s, n]: t = "str" with the   *)
(* text in s, t = "list" with a JSON array of numbers in s, or t = "num"   *)
(* with the number in n.  Dicts live in a heap and are named by reference, *)
(* because the source shares one dict object between last_known_values,    *)
(* new_values and the queue.                                               *)
(***************************************************************************)
EXTENDS Integers, Sequences, FiniteSets, TLC

\* ------------------------------------------------------------------ bounds
\* inbound messages received over a run
MaxMsgs == 2
\* display sends that fail with ConnectionClosed over a run
MaxFail == 2
\* closures of the subscription socket over a run
MaxFeedClose == 1
\* inbound messages received over a run with the catalogs of every line
MaxLineMsgs == 2
\* snapshots the Feed Client of one X-Crafts device enqueues over a run
MaxDevPuts == 3

\* ------------------------------------------------------- program constants
CDU_COLUMNS == 24
CDU_ROWS == 14
CDU_CELLS == CDU_COLUMNS * CDU_ROWS

\* ------------------------------------------------------------ Python str
Str(s) == [t |-> "str", s |-> s, n |-> 0]
Num(n) == [t |-> "num", s |-> <<>>, n |-> n]
List(l) == [t |-> "list", s |-> l, n |-> 0]

\* str.isspace() of one character: Python's whitespace set within ASCII
IsWs(c) ==
    c \in {" ", "\\x09", "\\x0a", "\\x0b", "\\x0c", "\\x0d",
           "\\x1c", "\\x1d", "\\x1e", "\\x1f"}

\* text.isspace(): at least one character and all of them whitespace
IsSpace(s) == Len(s) > 0 /\ \A i \in 1..Len(s) : IsWs(s[i])

\* not text or text.isspace()
Blank(s) == Len(s) = 0 \/ IsSpace(s)

IsDigit(c) == c \in {"0", "1", "2", "3", "4", "5", "6", "7", "8", "9"}

DigitVal(c) ==
    CASE c = "0" -> 0 [] c = "1" -> 1 [] c = "2" -> 2 [] c = "3" -> 3
      [] c = "4" -> 4 [] c = "5" -> 5 [] c = "6" -> 6 [] c = "7" -> 7
      [] c = "8" -> 8 [] c = "9" -> 9

\* sub in s
Contains(s, sub) ==
    \E i \in 0..(Len(s) - Len(sub)) : SubSeq(s, i + 1, i + Len(sub)) = sub

\* s.startswith(p), s.endswith(p)
StartsWith(s, p) == Len(p) <= Len(s) /\ SubSeq(s, 1, Len(p)) = p
EndsWith(s, p) ==
    Len(p) <= Len(s) /\ SubSeq(s, Len(s) - Len(p) + 1, Len(s)) = p

\* the member of a set of one
Only(S) == CHOOSE x \in S : TRUE

\* the least and the greatest member of a non-empty set of numbers
SetMin(S) == CHOOSE i \in S : \A j \in S : i <= j
SetMax(S) == CHOOSE i \in S : \A j \in S : j <= i

\* a slice bound clipped to the length n
Clip(a, n) == IF a > n THEN n ELSE a

\* s[a:b] for 0 <= a, 0 <= b (Python slice, 0-based, clipped to the text)
Slice(s, a, b) ==
    IF Clip(b, Len(s)) <= Clip(a, Len(s)) THEN <<>>
    ELSE SubSeq(s, Clip(a, Len(s)) + 1, Clip(b, Len(s)))

\* s.strip(): leading and trailing whitespace removed; keep holds the
\* positions of the characters that are not whitespace
StripTo(s, keep) ==
    IF keep = {} THEN <<>> ELSE SubSeq(s, SetMin(keep), SetMax(keep))

Strip(s) == StripTo(s, {i \in 1..Len(s) : ~IsWs(s[i])})

\* s.replace("\x00", " ")
ReplaceNul(s) == [i \in 1..Len(s) |-> IF s[i] = "\\x00" THEN " " ELSE s[i]]

\* s.rjust(w): left-padded with spaces to width w, unchanged when longer
RJust(s, w) ==
    IF Len(s) >= w THEN s
    ELSE [i \in 1..w |-> IF i <= w - Len(s) THEN " " ELSE s[i - (w - Len(s))]]

\* --------------------------------------------------------------- base64
B64Alphabet ==
    <<"A", "B", "C", "D", "E", "F", "G", "H", "I", "J", "K", "L", "M",
      "N", "O", "P", "Q", "R", "S", "T", "U", "V", "W", "X", "Y", "Z",
      "a", "b", "c", "d", "e", "f", "g", "h", "i", "j", "k", "l", "m",
      "n", "o", "p", "q", "r", "s", "t", "u", "v", "w", "x", "y", "z",
      "0", "1", "2", "3", "4", "5", "6", "7", "8", "9", "+", "/">>

\* character -> 6-bit value
B64Table ==
    [c \in {B64Alphabet[i] : i \in 1..Len(B64Alphabet)} |->
        (CHOOSE i \in 1..Len(B64Alphabet) : B64Alphabet[i] = c) - 1]

IsB64(c) == c \in DOMAIN B64Table
B64Val(c) == B64Table[c]

\* The characters of code 0..127, by code + 1.
AsciiTable ==
    <<"\\x00", "\\x01", "\\x02", "\\x03", "\\x04", "\\x05", "\\x06", "\\x07",
      "\\x08", "\\x09", "\\x0a", "\\x0b", "\\x0c", "\\x0d", "\\x0e", "\\x0f",
      "\\x10", "\\x11", "\\x12", "\\x13", "\\x14", "\\x15", "\\x16", "\\x17",
      "\\x18", "\\x19", "\\x1a", "\\x1b", "\\x1c", "\\x1d", "\\x1e", "\\x1f",
      " ", "!", "\"", "#", "$", "%", "&", "'", "(", ")", "*", "+", ",", "-",
      ".", "/", "0", "1", "2", "3", "4", "5", "6", "7", "8", "9", ":", ";",
      "<", "=", ">", "?", "@", "A", "B", "C", "D", "E", "F", "G", "H", "I",
      "J", "K", "L", "M", "N", "O", "P", "Q", "R", "S", "T", "U", "V", "W",
      "X", "Y", "Z", "[", "\\", "]", "^", "_", "\\x60", "a", "b", "c", "d", "e",
      "f", "g", "h", "i", "j", "k", "l", "m", "n", "o", "p", "q", "r", "s",
      "t", "u", "v", "w", "x", "y", "z", "{", "|", "}", "~", "\\x7f">>

\* binascii.a2b_base64 in its default, non-strict mode, as base64.b64decode
\* calls it.  The scan keeps quad_pos (data characters so far, modulo 4) and
\* pads (the "=" seen at quad_pos >= 2 since the last data character):
\* characters outside the alphabet are skipped; a "=" with
\* quad_pos + pads >= 4 ends the parse with success, which is the first "="
\* at quad_pos 3 or the second at quad_pos 2; at the end of the input a
\* quad left unfinished is an error.  Every data character contributes its
\* six bits to the output in order.

\* data characters before position i
B64Before(s, i) == Cardinality({j \in 1..(i - 1) : IsB64(s[j])})

\* the positions of a "=" that ends the parse
B64Ends(s) ==
    {i \in 1..Len(s) :
        /\ s[i] = "="
        /\ \/ B64Before(s, i) % 4 = 3
           \/ /\ B64Before(s, i) % 4 = 2
              /\ \E j \in 1..(i - 1) :
                     s[j] = "=" /\ B64Before(s, j) = B64Before(s, i)}

\* the data characters the scan reads
B64Data(s, ends) ==
    SelectSeq(SubSeq(s, 1, IF ends = {} THEN Len(s) ELSE SetMin(ends) - 1),
              IsB64)

\* byte k of the output, from the six-bit values of the data characters
B64Byte(data, k) ==
    CASE (k - 1) % 3 = 0 ->
           B64Val(data[4 * ((k - 1) \div 3) + 1]) * 4
             + B64Val(data[4 * ((k - 1) \div 3) + 2]) \div 16
      [] (k - 1) % 3 = 1 ->
           (B64Val(data[4 * ((k - 1) \div 3) + 2]) % 16) * 16
             + B64Val(data[4 * ((k - 1) \div 3) + 3]) \div 4
      [] (k - 1) % 3 = 2 ->
           (B64Val(data[4 * ((k - 1) \div 3) + 3]) % 4) * 64
             + B64Val(data[4 * ((k - 1) \div 3) + 4])

\* the bytes n data characters give
B64Count(n) ==
    3 * (n \div 4) + (CASE n % 4 = 2 -> 1 [] n % 4 = 3 -> 2 [] OTHER -> 0)

\* Result: [ok, bytes]; closed when a pad ended the parse.
B64Bytes(data, closed) ==
    [ok |-> closed \/ Len(data) % 4 = 0,
     bytes |-> [k \in 1..B64Count(Len(data)) |-> B64Byte(data, k)]]

B64Decode(s) ==
    Only({B64Bytes(data, B64Ends(s) # {}) : data \in {B64Data(s, B64Ends(s))}})

\* bytes.decode(): UTF-8.  A byte below 128 is the character of that code;
\* the inputs drawn in this model hold no multi-byte sequence, so a byte of
\* 128 or more is a byte no sequence can start with and raises
\* UnicodeDecodeError.  Result: [ok, s].
Utf8Decode(bytes) ==
    IF \A i \in 1..Len(bytes) : bytes[i] < 128
    THEN [ok |-> TRUE, s |-> [i \in 1..Len(bytes) |-> AsciiTable[bytes[i] + 1]]]
    ELSE [ok |-> FALSE, s |-> <<>>]

\* .replace("\x00", " ") of a decoded text u = [ok, s]
DecodedText(u) == IF u.ok THEN [ok |-> TRUE, s |-> ReplaceNul(u.s)] ELSE u

\* .decode() of the base64 result b = [ok, bytes]
DecodedBytes(b) ==
    IF b.ok THEN Only({DecodedText(u) : u \in {Utf8Decode(b.bytes)}})
    ELSE [ok |-> FALSE, s |-> <<>>]

\* base64.b64decode(value).decode().replace("\x00", " ") of a raw value;
\* b64decode raises TypeError for a number.  Result: [ok, s].
DecodeText(raw) ==
    IF raw.t # "str" THEN [ok |-> FALSE, s |-> <<>>]
    ELSE Only({DecodedBytes(b) : b \in {B64Decode(raw.s)}})

\* ------------------------------------------------------------ Python dict
\* A dict is a sequence of [k, v] records with distinct keys, in insertion
\* order (the order dict.items() iterates in).
DictHas(d, k) == \E i \in 1..Len(d) : d[i].k = k
DictGet(d, k) == d[CHOOSE i \in 1..Len(d) : d[i].k = k].v

\* d[k] = v: an existing key keeps its position, a new key goes last
DictSet(d, k, v) ==
    IF DictHas(d, k)
    THEN [i \in 1..Len(d) |-> IF d[i].k = k THEN [k |-> k, v |-> v] ELSE d[i]]
    ELSE Append(d, [k |-> k, v |-> v])

\* a == b on dicts: the same keys with equal values, whatever the order
DictEq(a, b) ==
    /\ Len(a) = Len(b)
    /\ \A i \in 1..Len(a) : DictHas(b, a[i].k) /\ DictGet(b, a[i].k) = a[i].v

\* list[a:a] = new: an insertion that replaces nothing
SliceInsert(list, a, b, new) ==
    Slice(list, 0, a) \o new \o Slice(list, a, Len(list))

\* list[a:b] = new (Python slice assignment, 0 <= a <= b)
SliceAssign(list, a, b, new) ==
    Slice(list, 0, a) \o new \o Slice(list, b, Len(list))

\* [[] for _ in range(CDU_ROWS * CDU_COLUMNS)]
EmptyGrid == [i \in 1..(CDU_ROWS * CDU_COLUMNS) |-> <<>>]

\* json.dumps({"Target": "Display", "Data": display_data}); a tuple and a
\* list both serialize to a JSON array
DisplayJson(display_data) == [Target |-> "Display", Data |-> display_data]

\* ------------------------------------------------------------------ ToLiss
\* glyphs, named by their Python escapes
TL_BALLOT_BOX == "\\u2610"
TL_UP_ARROW == "\\u2191"
TL_DOWN_ARROW == "\\u2193"
TL_LEFT_ARROW == "\\u2190"
TL_RIGHT_ARROW == "\\u2192"
TL_GREEK_DELTA == "\\u0394"
TL_DEGREES == "\\u00b0"

\* CONTENT_MAP.get(c, c)
TL_ContentMap(c) ==
    CASE c = "\\x60" -> TL_DEGREES
      [] c = "|" -> TL_GREEK_DELTA
      [] OTHER -> c

\* SYMBOL_MAP.get(c, c), SYMBOL_MAP = CONTENT_MAP | {...}
TL_SymbolMap(c) ==
    CASE c = "A" -> "["
      [] c = "B" -> "]"
      [] c = "E" -> TL_BALLOT_BOX
      [] c \in {"0", "2", "4"} -> TL_LEFT_ARROW
      [] c \in {"1", "3", "5"} -> TL_RIGHT_ARROW
      [] c = "C" -> TL_UP_ARROW
      [] c = "D" -> TL_DOWN_ARROW
      [] OTHER -> TL_ContentMap(c)

\* COLOR_MAP.get(suffix, suffix)
TL_ColorMap(suffix) == IF suffix = "b" THEN "c" ELSE suffix

\* SYMBOL_COLOR_MAP.get(c, "c")
TL_SymbolColorMap(c) == IF c \in {"E", "4", "5"} THEN "a" ELSE "c"

TL_label == <<"l", "a", "b", "e", "l">>
TL_labelL == <<"l", "a", "b", "e", "l", "L">>
TL_title == <<"t", "i", "t", "l", "e">>
TL_cont == <<"c", "o", "n", "t">>
TL_scont == <<"s", "c", "o", "n", "t">>
TL_VertSlewKeysSuffix ==
    <<"V", "e", "r", "t", "S", "l", "e", "w", "K", "e", "y", "s">>
\* "AirbusFBW/MCDU1spa"
TL_N_spa ==
    <<"A", "i", "r", "b", "u", "s", "F", "B", "W", "/", "M", "C", "D", "U",
      "1", "s", "p", "a">>
\* "AirbusFBW/MCDU1spw"
TL_N_spw ==
    <<"A", "i", "r", "b", "u", "s", "F", "B", "W", "/", "M", "C", "D", "U",
      "1", "s", "p", "w">>
\* "AirbusFBW/MCDU1VertSlewKeys"
TL_N_VertSlewKeys ==
    <<"A", "i", "r", "b", "u", "s", "F", "B", "W", "/", "M", "C", "D", "U",
      "1", "V", "e", "r", "t", "S", "l", "e", "w", "K", "e", "y", "s">>

TL_get_color(dataref_name, char) ==
    LET suffix == dataref_name[Len(dataref_name)] IN
    IF \/ /\ Contains(dataref_name, TL_label) \/ Contains(dataref_name, TL_title)
          /\ suffix = "s"
       \/ EndsWith(dataref_name, TL_VertSlewKeysSuffix)
    THEN "w"
    ELSE IF suffix = "s" THEN TL_SymbolColorMap(char)
    ELSE TL_ColorMap(suffix)

TL_get_char(dataref_name, char) ==
    IF dataref_name[Len(dataref_name)] = "s"
    THEN TL_SymbolMap(char)
    ELSE TL_ContentMap(char)

TL_get_size(dataref_name) ==
    IF \/ Contains(dataref_name, TL_scont)
       \/ Contains(dataref_name, TL_label) /\ ~Contains(dataref_name, TL_labelL)
    THEN 1 ELSE 0

\* a loop body that lets every dataref of the line into both of its rows
TL_OverlayItemAnyRow(line_chars, dataref, text, row) ==
    IF Blank(text) THEN line_chars
    ELSE [i \in 1..CDU_COLUMNS |->
            IF i <= Len(text) /\ text[i] # " "
            THEN <<TL_get_char(dataref, text[i]),
                   TL_get_color(dataref, text[i]),
                   TL_get_size(dataref)>>
            ELSE line_chars[i]]

\* a loop body that writes the spaces of the text too, as empty cells
TL_OverlayItemBlanking(line_chars, dataref, text, row) ==
    LET target_suffix == IF row % 2 = 0 THEN TL_label ELSE TL_cont IN
    IF Blank(text) THEN line_chars
    ELSE IF (row # 0 /\ row # 14) /\ ~Contains(dataref, target_suffix)
    THEN line_chars
    ELSE [i \in 1..CDU_COLUMNS |->
            IF i <= Len(text)
            THEN IF text[i] = " " THEN <<>>
                 ELSE <<TL_get_char(dataref, text[i]),
                        TL_get_color(dataref, text[i]),
                        TL_get_size(dataref)>>
            ELSE line_chars[i]]

\* The loop body of process_cdu_line for one (dataref, text) item: the
\* characters of text[:CDU_COLUMNS] that are not a space overwrite their
\* column, every other column keeps what it held.
TL_OverlayItem(line_chars, dataref, text, row) ==
    LET target_suffix == IF row % 2 = 0 THEN TL_label ELSE TL_cont IN
    IF Blank(text) THEN line_chars
    ELSE IF (row # 0 /\ row # 14) /\ ~Contains(dataref, target_suffix)
    THEN line_chars
    ELSE [i \in 1..CDU_COLUMNS |->
            IF i <= Len(text) /\ text[i] # " "
            THEN <<TL_get_char(dataref, text[i]),
                   TL_get_color(dataref, text[i]),
                   TL_get_size(dataref)>>
            ELSE line_chars[i]]

RECURSIVE TL_OverlayFrom(_, _, _, _)
TL_OverlayFrom(line_chars, line_datarefs, j, row) ==
    IF j > Len(line_datarefs) THEN line_chars
    ELSE TL_OverlayFrom(
             TL_OverlayItem(line_chars, line_datarefs[j].k,
                            line_datarefs[j].v.s, row),
             line_datarefs, j + 1, row)

TL_process_cdu_line(line_datarefs, row) ==
    TL_OverlayFrom([i \in 1..CDU_COLUMNS |-> <<>>], line_datarefs, 1, row)

\* The line number of one dataref in group_datarefs_by_line: 0 for a title,
\* 7 for the three extra-row names, else the last digit of the name; -1
\* when the name has no digit (next() raises, the except clause drops the
\* dataref).
TL_line_num(dataref) ==
    IF Contains(dataref, TL_title) THEN 0
    ELSE IF dataref \in {TL_N_spa, TL_N_spw, TL_N_VertSlewKeys} THEN 7
    ELSE LET ds == {i \in 1..Len(dataref) : IsDigit(dataref[i])} IN
         IF ds = {} THEN -1
         ELSE DigitVal(dataref[CHOOSE i \in ds : \A j \in ds : j <= i])

\* grouped_datarefs.get(line, {}): the datarefs of one line, in the order
\* of the snapshot
TL_group_datarefs_by_line(values, line) ==
    SelectSeq(values, LAMBDA e : TL_line_num(e.k) = line)

RECURSIVE TL_Rows(_, _, _)
TL_Rows(display_data, values, row) ==
    IF row > CDU_ROWS THEN display_data
    ELSE IF row = 1 THEN TL_Rows(display_data, values, row + 1)
    ELSE LET dataref_line == IF row > 0 THEN row \div 2 ELSE 0
             line_datarefs == TL_group_datarefs_by_line(values, dataref_line)
             start_index == (IF row > 0 THEN row - 1 ELSE row) * CDU_COLUMNS
         IN  IF line_datarefs = <<>>
             THEN TL_Rows(display_data, values, row + 1)
             ELSE TL_Rows(SliceAssign(display_data, start_index,
                                      start_index + CDU_COLUMNS,
                                      TL_process_cdu_line(line_datarefs, row)),
                          values, row + 1)

TL_generate_display_json(values) ==
    DisplayJson(TL_Rows(EmptyGrid, values, 0))

\* a process_slew_keys that pads on the right: result.ljust(24)
TL_process_slew_keys_ljust(value) ==
    [i \in 1..24 |->
        IF value.t # "num" THEN " "
        ELSE IF i = 1 /\ value.n \in {1, 2} THEN TL_UP_ARROW
        ELSE IF i = 1 /\ value.n = 3 THEN TL_DOWN_ARROW
        ELSE IF i = 2 /\ value.n = 1 THEN TL_DOWN_ARROW
        ELSE " "]

\* process_slew_keys(value): the match falls to the default for every
\* value that is none of the numbers 1, 2, 3
TL_process_slew_keys(value) ==
    RJust(IF value.t # "num" THEN <<>>
          ELSE CASE value.n = 1 -> <<TL_UP_ARROW, TL_DOWN_ARROW>>
                 [] value.n = 2 -> <<TL_UP_ARROW, " ">>
                 [] value.n = 3 -> <<TL_DOWN_ARROW>>
                 [] OTHER -> <<>>,
          24)

\* int() of a text t of at most two characters, already stripped of
\* whitespace: an optional sign, then digits only.  Result: [ok, n].
PyIntDigits(ds, negative) ==
    IF Len(ds) = 0 \/ \E i \in 1..Len(ds) : ~IsDigit(ds[i])
    THEN [ok |-> FALSE, n |-> 0]
    ELSE [ok |-> TRUE,
          n |-> (IF negative THEN -1 ELSE 1)
                  * (IF Len(ds) = 1 THEN DigitVal(ds[1])
                     ELSE 10 * DigitVal(ds[1]) + DigitVal(ds[2]))]

PyIntStripped(t) ==
    IF Len(t) > 0 /\ t[1] \in {"+", "-"}
    THEN PyIntDigits(Tail(t), t[1] = "-")
    ELSE PyIntDigits(t, FALSE)

\* int(s): whitespace around the number is ignored
PyInt(s) == PyIntStripped(Strip(s))

\* s.rindex(c), 0-based; -1 stands for the ValueError of a missing c
RIndex(s, c) ==
    IF \A i \in 1..Len(s) : s[i] # c THEN -1
    ELSE SetMax({i \in 1..Len(s) : s[i] = c}) - 1

\* A decoder that raised: the exception leaves the calling task.
Raised == [ok |-> FALSE, json |-> <<>>]

\* -------------------------------------------------------------------- Zibo
Z_DEGREES == "\\u00b0"
Z_BALLOT_BOX == "\\u2610"

\* CHARACTER_MAPPING.get(c, c)
Z_CharacterMapping(c) ==
    CASE c = "\\x60" -> Z_DEGREES
      [] c = "*" -> Z_BALLOT_BOX
      [] OTHER -> c

Z_Line_entry == <<"L", "i", "n", "e", "_", "e", "n", "t", "r", "y">>

\* COLOR_MAPPING lookup of get_color, "w" for an ending it does not hold
Z_ColorMapping(dataref_ending) ==
    CASE dataref_ending \in {<<"G", "X">>, <<"G">>} -> "g"
      [] dataref_ending = <<"C">> -> "c"
      [] dataref_ending = <<"I">> -> "e"
      [] dataref_ending = <<"M">> -> "m"
      [] OTHER -> "w"

\* get_color(dataref); "" stands for the ValueError of rindex("_")
Z_get_color(dataref) ==
    IF RIndex(dataref, "_") < 0 THEN ""
    ELSE Z_ColorMapping(Slice(dataref, RIndex(dataref, "_") + 1, Len(dataref)))

Z_get_size(dataref) ==
    IF EndsWith(dataref, <<"X">>) \/ EndsWith(dataref, <<"S">>) THEN 1 ELSE 0

\* target_suffixes of process_cdu_line
Z_target_suffixes(row) ==
    IF row % 2 = 0
    THEN {<<"_", "X">>, <<"_", "L", "X">>, <<"_", "G", "X">>}
    ELSE {<<"_", "G">>, <<"_", "L">>, <<"_", "M">>, <<"_", "S">>,
          <<"_", "I">>, <<"_", "S", "I">>}

\* whether process_cdu_line renders this item in this row
Z_Renders(dataref, text, row) ==
    /\ ~Blank(text)
    /\ \/ row = 0 \/ row = 14
       \/ \E suffix \in Z_target_suffixes(row) : EndsWith(dataref, suffix)

Z_OverlayItem(line_chars, dataref, text, row) ==
    IF ~Z_Renders(dataref, text, row) THEN line_chars
    ELSE [i \in 1..CDU_COLUMNS |->
            IF i <= Len(text) /\ text[i] # " "
            THEN <<Z_CharacterMapping(text[i]), Z_get_color(dataref),
                   Z_get_size(dataref)>>
            ELSE line_chars[i]]

RECURSIVE Z_OverlayFrom(_, _, _, _)
Z_OverlayFrom(line_chars, line_datarefs, j, row) ==
    IF j > Len(line_datarefs) THEN line_chars
    ELSE Z_OverlayFrom(
             Z_OverlayItem(line_chars, line_datarefs[j].k,
                           line_datarefs[j].v.s, row),
             line_datarefs, j + 1, row)

Z_process_cdu_line(line_datarefs, row) ==
    Z_OverlayFrom([i \in 1..CDU_COLUMNS |-> <<>>], line_datarefs, 1, row)

\* get_color raises in process_cdu_line: a rendered item with a character
\* to place whose name holds no "_"
Z_LineRaises(line_datarefs, row) ==
    \E j \in 1..Len(line_datarefs) :
        /\ Z_Renders(line_datarefs[j].k, line_datarefs[j].v.s, row)
        /\ \E i \in 1..Len(line_datarefs[j].v.s) :
               i <= CDU_COLUMNS /\ line_datarefs[j].v.s[i] # " "
        /\ RIndex(line_datarefs[j].k, "_") < 0

\* line_num from dataref_name, the part of the name after its last "/"
Z_NameLine(dataref_name) ==
    IF StartsWith(dataref_name, Z_Line_entry) THEN [ok |-> TRUE, n |-> 7]
    ELSE PyInt(Slice(dataref_name, 4, 6))

\* line_num of one dataref in group_datarefs_by_line.  Result: [ok, n];
\* rindex("/") and int() raise ValueError.
Z_line_num(dataref) ==
    IF RIndex(dataref, "/") < 0 THEN [ok |-> FALSE, n |-> 0]
    ELSE Z_NameLine(Slice(dataref, RIndex(dataref, "/") + 1, Len(dataref)))

Z_group_datarefs_by_line(values, line) ==
    SelectSeq(values, LAMBDA e : Z_line_num(e.k).n = line)

\* Rows 0..14 of get_display_json.  Result: [ok, json] with the grid in json.
RECURSIVE Z_Rows(_, _, _)
Z_Rows(display_data, values, row) ==
    IF row > CDU_ROWS THEN [ok |-> TRUE, json |-> display_data]
    ELSE IF row = 1 THEN Z_Rows(display_data, values, row + 1)
    ELSE LET dataref_line == IF row > 0 THEN row \div 2 ELSE 0
             line_datarefs == Z_group_datarefs_by_line(values, dataref_line)
             start_index == (IF row > 0 THEN row - 1 ELSE row) * CDU_COLUMNS
         IN  IF line_datarefs = <<>>
             THEN Z_Rows(display_data, values, row + 1)
             ELSE IF Z_LineRaises(line_datarefs, row) THEN Raised
             ELSE Z_Rows(SliceAssign(display_data, start_index,
                                     start_index + CDU_COLUMNS,
                                     Z_process_cdu_line(line_datarefs, row)),
                         values, row + 1)

\* json.dumps of the grid, when no row raised
Z_Dumped(r) == IF r.ok THEN [ok |-> TRUE, json |-> DisplayJson(r.json)] ELSE Raised

Z_get_display_json(values) ==
    IF \E j \in 1..Len(values) : ~Z_line_num(values[j].k).ok THEN Raised
    ELSE Z_Dumped(Z_Rows(EmptyGrid, values, 0))

\* ------------------------------------------------------------ FlightFactor
FF_BALLOT_BOX == "\\u2610"
FF_DEGREES == "\\u00b0"

\* "1-sim/cduL/display/symbols"
FF_SYMBOLS ==
    <<"1", "-", "s", "i", "m", "/", "c", "d", "u", "L", "/", "d", "i", "s",
      "p", "l", "a", "y", "/", "s", "y", "m", "b", "o", "l", "s">>
\* "1-sim/cduL/display/symbolsColor"
FF_SYMBOLS_COLOR == FF_SYMBOLS \o <<"C", "o", "l", "o", "r">>
\* "1-sim/cduL/display/symbolsSize"
FF_SYMBOLS_SIZE == FF_SYMBOLS \o <<"S", "i", "z", "e">>

\* CHAR_MAP.get(c, c)
FF_get_char(char) ==
    CASE char = "\\x1d" -> FF_BALLOT_BOX
      [] char = "\\x1c" -> FF_DEGREES
      [] OTHER -> char

\* zip(symbols, symbol_sizes, symbol_colors): TypeError for a number, else
\* as many triples as the shortest array holds
FF_Zip(symbols, symbol_sizes, symbol_colors) ==
    IF \/ symbols.t \notin {"str", "list"}
       \/ symbol_sizes.t \notin {"str", "list"}
       \/ symbol_colors.t \notin {"str", "list"}
    THEN [ok |-> FALSE, lines |-> <<>>]
    ELSE [ok |-> TRUE,
          lines |-> [i \in 1..SetMin({Len(symbols.s), Len(symbol_sizes.s),
                                      Len(symbol_colors.s)}) |->
                       [char |-> symbols.s[i], size |-> symbol_sizes.s[i],
                        color |-> symbol_colors.s[i]]]]

\* process_display_datarefs: values[...] raises KeyError for a missing
\* array.  Result: [ok, lines] with lines of [char, size, color].
FF_process_display_datarefs(values) ==
    IF ~(DictHas(values, FF_SYMBOLS) /\ DictHas(values, FF_SYMBOLS_SIZE)
           /\ DictHas(values, FF_SYMBOLS_COLOR))
    THEN [ok |-> FALSE, lines |-> <<>>]
    ELSE FF_Zip(DictGet(values, FF_SYMBOLS), DictGet(values, FF_SYMBOLS_SIZE),
                DictGet(values, FF_SYMBOLS_COLOR))

\* The row and column loops of generate_display_json over the triples p:
\* processed_datarefs[index] raises IndexError when fewer than
\* CDU_ROWS * CDU_COLUMNS triples came out of the zip
FF_Cells(p) ==
    IF ~p.ok \/ Len(p.lines) < CDU_ROWS * CDU_COLUMNS THEN Raised
    ELSE [ok |-> TRUE,
          json |-> DisplayJson(
              [index \in 1..(CDU_ROWS * CDU_COLUMNS) |->
                 IF p.lines[index].char = " " THEN <<>>
                 ELSE <<FF_get_char(p.lines[index].char), "g",
                        p.lines[index].size>>])]

FF_generate_display_json(values) == FF_Cells(FF_process_display_datarefs(values))

\* ---------------------------------------------------------------- X-Crafts
\* COLOR_MAP.get(color, "w") with the empty COLOR_MAP
XC_get_color(color) == "w"

\* a store one cell to the right of the index it is given
XC_SetCellRight(display_data, at, cell) ==
    IF at + 1 < 0 - Len(display_data) \/ at + 1 >= Len(display_data) THEN Raised
    ELSE [ok |-> TRUE,
          json |-> [display_data EXCEPT
                       ![(IF at + 1 < 0 THEN at + 1 + Len(display_data)
                          ELSE at + 1) + 1] = cell]]

\* display_data[at] = cell with a Python list index: a negative one counts
\* from the end, one outside the list raises IndexError.  Result: [ok, json].
XC_SetCell(display_data, at, cell) ==
    IF at < 0 - Len(display_data) \/ at >= Len(display_data) THEN Raised
    ELSE [ok |-> TRUE,
          json |-> [display_data EXCEPT
                       ![(IF at < 0 THEN at + Len(display_data) ELSE at) + 1] = cell]]

\* The character loop of translate_values from char_index on, r = [ok, json]
\* being the grid so far.
RECURSIVE XC_Chars(_, _, _, _, _, _)
XC_Chars(r, text, char_index, index, color, size) ==
    IF ~r.ok THEN Raised
    ELSE IF char_index >= Len(text) \/ char_index > CDU_COLUMNS - 1 THEN r
    ELSE IF text[char_index + 1] = " "
    THEN XC_Chars(r, text, char_index + 1, index, color, size)
    ELSE XC_Chars(XC_SetCell(r.json, index + char_index - 1,
                             <<text[char_index + 1], XC_get_color(color), size>>),
                  text, char_index + 1, index, color, size)

\* One pass of the loop of translate_values, for a value that is not blank:
\* the four int() calls raise ValueError, value[4] and value[5] IndexError;
\* a prefix with no text after it goes on to the next value.
XC_Item(r, value, row, col, size, color, text) ==
    IF ~row.ok \/ ~col.ok \/ Len(value) < 5 \/ ~size.ok \/ Len(value) < 6
         \/ ~color.ok
    THEN Raised
    ELSE IF text = <<>> THEN r
    ELSE XC_Chars(r, text, 0, (row.n - 1) * CDU_COLUMNS + (col.n - 1),
                  color.n, size.n)

\* The loop of translate_values over values.items() from item j on: a
\* number has no strip() and raises, a blank value breaks out of the loop.
RECURSIVE XC_Items(_, _, _)
XC_Items(r, values, j) ==
    IF ~r.ok THEN Raised
    ELSE IF j > Len(values) THEN r
    ELSE IF values[j].v.t # "str" THEN Raised
    ELSE IF Strip(values[j].v.s) = <<>> THEN r
    ELSE XC_Items(XC_Item(r, values[j].v.s,
                          PyInt(Slice(values[j].v.s, 0, 2)),
                          PyInt(Slice(values[j].v.s, 2, 4)),
                          PyInt(Slice(values[j].v.s, 4, 5)),
                          PyInt(Slice(values[j].v.s, 5, 6)),
                          Strip(Slice(values[j].v.s, 6, Len(values[j].v.s)))),
                  values, j + 1)

XC_translate_values(values) ==
    XC_Items([ok |-> TRUE, json |-> EmptyGrid], values, 1)

\* generate_display_json(device, values): translates, prints and returns
\* None, which "json" holds as <<>>
XC_generate_display_json(values) ==
    IF XC_translate_values(values).ok
    THEN [ok |-> TRUE, json |-> <<>>]
    ELSE Raised


\* ------------------------------------------------------- the environment
Families == {"ToLiss", "Zibo", "FlightFactor", "XCrafts"}

\* s repeated n times
RepSeq(s, n) == [i \in 1..(n * Len(s)) |-> s[((i - 1) % Len(s)) + 1]]

\* "AirbusFBW/MCDU1title1"
TL_N_title1 ==
    <<"A", "i", "r", "b", "u", "s", "F", "B", "W", "/", "M", "C", "D", "U",
      "1", "t", "i", "t", "l", "e", "1">>
\* "AirbusFBW/MCDU1cont1g"
TL_N_cont1g ==
    <<"A", "i", "r", "b", "u", "s", "F", "B", "W", "/", "M", "C", "D", "U",
      "1", "c", "o", "n", "t", "1", "g">>
\* "laminar/B738/fmc1/Line00_L"
Z_N_Line00_L ==
    <<"l", "a", "m", "i", "n", "a", "r", "/", "B", "7", "3", "8", "/", "f",
      "m", "c", "1", "/", "L", "i", "n", "e", "0", "0", "_", "L">>
\* "laminar/B738/fmc1/Line01_X"
Z_N_Line01_X ==
    <<"l", "a", "m", "i", "n", "a", "r", "/", "B", "7", "3", "8", "/", "f",
      "m", "c", "1", "/", "L", "i", "n", "e", "0", "1", "_", "X">>
\* "laminar/B738/fmc1/Line_entry"
Z_N_Line_entry ==
    <<"l", "a", "m", "i", "n", "a", "r", "/", "B", "7", "3", "8", "/", "f",
      "m", "c", "1", "/", "L", "i", "n", "e", "_", "e", "n", "t", "r", "y">>
\* "XCrafts/FMS/CDU_1_03"
XC_N_CDU_1_03 ==
    <<"X", "C", "r", "a", "f", "t", "s", "/", "F", "M", "S", "/", "C", "D",
      "U", "_", "1", "_", "0", "3">>
\* "XCrafts/FMS/CDU_1_04"
XC_N_CDU_1_04 ==
    <<"X", "C", "r", "a", "f", "t", "s", "/", "F", "M", "S", "/", "C", "D",
      "U", "_", "1", "_", "0", "4">>

\* What fetch_dataref_mapping returns for each script: the simulator's
\* datarefs that pass the script's name filter, id -> name.
Catalog(f) ==
    CASE f = "ToLiss" -> <<TL_N_title1, TL_N_cont1g, TL_N_VertSlewKeys>>
      [] f = "Zibo" -> <<Z_N_Line00_L, Z_N_Line01_X, Z_N_Line_entry>>
      [] f = "FlightFactor" -> <<FF_SYMBOLS, FF_SYMBOLS_SIZE, FF_SYMBOLS_COLOR>>
      [] f = "XCrafts" -> <<XC_N_CDU_1_03, XC_N_CDU_1_04>>

\* str(n) of a single digit n
DigitChar(n) == <<"0", "1", "2", "3", "4", "5", "6", "7", "8", "9">>[n + 1]

\* "AirbusFBW/MCDU1label<n>w" and "AirbusFBW/MCDU1cont<n>g"
TL_N_label(n) == Slice(TL_N_spa, 0, 15) \o TL_label \o <<DigitChar(n), "w">>
TL_N_cont(n) == Slice(TL_N_spa, 0, 15) \o TL_cont \o <<DigitChar(n), "g">>
\* "laminar/B738/fmc1/Line0<n>_X" and "laminar/B738/fmc1/Line0<n>_L"
Z_N_Line_X(n) == Slice(Z_N_Line00_L, 0, 23) \o <<DigitChar(n), "_", "X">>
Z_N_Line_L(n) == Slice(Z_N_Line00_L, 0, 23) \o <<DigitChar(n), "_", "L">>

\* Catalogs fetch_dataref_mapping may return: the one above, the label
\* and content datarefs of one of the lines 1 to 6, or the datarefs of a
\* row that takes every dataref of its line (the last row of ToLiss, the
\* first of Zibo).
LineCatalogs(f) ==
    {Catalog(f)} \cup
    CASE f = "ToLiss" -> {<<TL_N_label(n), TL_N_cont(n)>> : n \in 1..6}
                           \cup {<<TL_N_spa, TL_N_spw, TL_N_VertSlewKeys>>}
      [] f = "Zibo" -> {<<Z_N_Line_X(n), Z_N_Line_L(n)>> : n \in 0..6}
      [] OTHER -> {}

\* an id the simulator may send that the catalog does not hold
UnknownId(f) == Len(Catalog(f)) + 1

\* raw values on the wire: base64 text of the bytes named in the comment
\* b"FUEL PRED "
B64_FUEL_PRED ==
    Str(<<"R", "l", "V", "F", "T", "C", "B", "Q", "U", "k", "V", "E", "I",
          "A", "=", "=">>)
\* b"\x00\x00"
B64_NUL2 == Str(<<"A", "A", "A", "=">>)
\* b"A"
B64_A == Str(<<"Q", "Q", "=", "=">>)
\* b"RTE"
B64_RTE == Str(<<"U", "l", "R", "F">>)
\* b"   "
B64_SP3 == Str(<<"I", "C", "A", "g">>)
\* b"011310RTE"
B64_011310RTE ==
    Str(<<"M", "D", "E", "x", "M", "z", "E", "w", "U", "l", "R", "F">>)
\* b"012120 1/1"
B64_012120 ==
    Str(<<"M", "D", "E", "y", "M", "T", "I", "w", "I", "D", "E", "v", "M",
          "Q", "=", "=">>)
\* b"XX1310RTE"
B64_XX1310RTE ==
    Str(<<"W", "F", "g", "x", "M", "z", "E", "w", "U", "l", "R", "F">>)
\* b"ABCDEFGHIJKLMNOPQRSTUVWXYZ"
B64_ALPHABET ==
    Str(<<"Q", "U", "J", "D", "R", "E", "V", "G", "R", "0", "h", "J", "S",
          "k", "t", "M", "T", "U", "5", "P", "U", "F", "F", "S", "U", "1",
          "R", "V", "V", "l", "d", "Y", "W", "V", "o", "=">>)
\* b" AB C"
B64_SP_AB_C == Str(<<"I", "E", "F", "C", "I", "E", "M", "=">>)
\* one data character: not base64
B64_BAD == Str(<<"Q">>)
\* b"A" followed by 335 spaces: a full symbols array
B64_SYMBOLS == Str(<<"Q", "S", "A", "g">> \o RepSeq(<<"I", "C", "A", "g">>, 111))
\* full size and color arrays, as JSON arrays of numbers
FF_SIZES == List([i \in 1..(CDU_ROWS * CDU_COLUMNS) |-> 0])
FF_COLORS == List([i \in 1..(CDU_ROWS * CDU_COLUMNS) |-> 1])

Item(id, value) == [id |-> id, value |-> value]
NoData == [hasData |-> FALSE, items |-> <<>>]
Data(items) == [hasData |-> TRUE, items |-> items]

\* The inbound messages drawn for each script: one without a data payload,
\* single and double updates of known ids, a blank value, an unknown id, and
\* a value the script cannot decode.
Messages(f) ==
    CASE f = "ToLiss" ->
           {NoData,
            Data(<<Item(1, B64_FUEL_PRED)>>),
            Data(<<Item(2, B64_NUL2)>>),
            Data(<<Item(1, B64_FUEL_PRED), Item(3, Num(1))>>),
            Data(<<Item(UnknownId(f), B64_A), Item(2, B64_A)>>),
            Data(<<Item(2, B64_BAD)>>)}
      [] f = "Zibo" ->
           {NoData,
            Data(<<Item(1, B64_RTE)>>),
            Data(<<Item(2, B64_SP3)>>),
            Data(<<Item(1, B64_RTE), Item(3, B64_A)>>),
            Data(<<Item(UnknownId(f), B64_A), Item(2, B64_A)>>),
            Data(<<Item(2, B64_BAD)>>)}
      [] f = "FlightFactor" ->
           {NoData,
            Data(<<Item(1, B64_SYMBOLS)>>),
            Data(<<Item(2, FF_SIZES), Item(3, FF_COLORS)>>),
            Data(<<Item(1, B64_SYMBOLS), Item(2, FF_SIZES), Item(3, FF_COLORS)>>),
            Data(<<Item(UnknownId(f), B64_A)>>),
            Data(<<Item(1, B64_BAD)>>)}
      [] f = "XCrafts" ->
           {NoData,
            Data(<<Item(1, B64_011310RTE)>>),
            Data(<<Item(2, B64_012120)>>),
            Data(<<Item(1, B64_011310RTE), Item(2, B64_SP3)>>),
            Data(<<Item(UnknownId(f), B64_A), Item(1, B64_XX1310RTE)>>),
            Data(<<Item(2, B64_BAD)>>)}

\* The inbound messages drawn for the catalogs of LineCatalogs: texts
\* with spaces and of more than CDU_COLUMNS characters, a blank value
\* before a value that is not blank, a value the script cannot decode
\* between two it can, and an id 3 that only the catalog above holds.
LineMessages(f) ==
    CASE f = "ToLiss" ->
           {NoData,
            Data(<<Item(2, B64_ALPHABET)>>),
            Data(<<Item(1, B64_ALPHABET), Item(2, B64_SP_AB_C)>>),
            Data(<<Item(1, B64_SP3), Item(2, B64_A)>>),
            Data(<<Item(3, Num(2))>>),
            Data(<<Item(3, Num(1))>>),
            Data(<<Item(2, B64_A), Item(3, Num(0))>>),
            Data(<<Item(1, B64_A), Item(3, Num(3))>>),
            Data(<<Item(1, B64_FUEL_PRED), Item(2, B64_BAD), Item(3, Num(1))>>)}
      [] f = "Zibo" ->
           {NoData,
            Data(<<Item(2, B64_ALPHABET)>>),
            Data(<<Item(1, B64_ALPHABET), Item(2, B64_SP_AB_C)>>),
            Data(<<Item(1, B64_SP3), Item(2, B64_A)>>),
            Data(<<Item(3, B64_A)>>),
            Data(<<Item(1, B64_A), Item(3, B64_RTE)>>),
            Data(<<Item(1, B64_RTE), Item(2, B64_BAD), Item(3, B64_A)>>)}
      [] f = "FlightFactor" -> Messages(f)
      [] f = "XCrafts" ->
           \* the last value is b"010110AB": a text at row 01, column 01
           Messages(f) \cup
           {Data(<<Item(1, B64_SP3), Item(2, B64_012120)>>),
            Data(<<Item(2, Str(<<"M", "D", "E", "w", "M", "T", "E", "w", "Q", "U", "I", "=">>))>>)}

\* class CduDevice(Enum): Captain = 1, CoPilot = 2
CduDevice == {1, 2}

\* ------------------------------------------------------------- the state
VARIABLES
    family,             \* which of the four scripts runs
    heap,               \* the dict objects, by reference 1..Len(heap)
    last_known_values,  \* Feed Client: reference of last_known_values
    new_values,         \* Feed Client: reference of new_values
    dataref_map,        \* Feed Client: the fetched catalog, id -> name
    pending,            \* Feed Client: items of data["data"] not yet looped over
    fdPc,               \* Feed Client: where handle_datarefs stands
    queue,              \* the asyncio.Queue, references in FIFO order
    values,             \* Display Sender: reference it took off the queue
    display_json,       \* Display Sender: the frame it built
    dsPc,               \* Display Sender: where handle_display_update stands
    msgs, fails, closes,      \* counters the bounds cap
    conns, catalogConn,       \* connections made; the one the catalog was fetched for
    enqLog, sentLog, sentFrames,  \* history: references put by the Feed
                                  \* Client, references and frames sent
    lastFailed, gets,         \* history: snapshot of the last failed send; gets done
    msg, msgStart, enqAtStart, \* history: the message in progress, the
                               \* snapshot and Len(enqLog) when it arrived
    device_candidates,  \* X-Crafts main: the devices still to probe, of
                        \* [device for device in CduDevice]
    available_devices,  \* X-Crafts main: the devices whose probe connected
    tasks,              \* X-Crafts main: the tasks created, each with the
                        \* queue and the device it was given
    queues,             \* X-Crafts main: the asyncio.Queue objects, by
                        \* reference 1..Len(queues)
    held,               \* X-Crafts: per device, what its Display Sender
                        \* took off its queue last
    probed, puts        \* history: per device, how its probe ended and
                        \* the snapshots its Feed Client has enqueued

feedVars == <<heap, last_known_values, new_values, dataref_map, pending, fdPc>>
dispVars == <<values, display_json, dsPc>>
countVars == <<msgs, fails, closes>>
connVars == <<conns, catalogConn>>
sendHist == <<sentLog, sentFrames, lastFailed, gets>>
msgHist == <<msg, msgStart, enqAtStart>>
devVars == <<device_candidates, available_devices, tasks, queues, held,
             probed, puts>>
vars == <<family, feedVars, queue, dispVars, countVars, connVars, enqLog,
          sendHist, msgHist, devVars>>

\* the reference of no object: the references of the heap start at 1
NoRef == Len(<<>>)

\* full() of a queue made with maxsize 1, where put waits for a free slot
QueueFullAtOne(q) == Len(q) >= 1

\* asyncio.Queue() has maxsize 0: full() is always False and put never waits
QueueFull(q) == FALSE

\* a comparison that takes every candidate for changed
ChangedAlways(new, last) == TRUE

\* new_values == last_known_values is False
Changed(new, last) == ~DictEq(new, last)

\* the decoded text as a dict value.  Result: [ok, v].
Decoded(text) == [ok |-> text.ok, v |-> Str(text.s)]

\* The value the Feed Client stores for one update.  Result: [ok, v]; not
\* ok when the decoding raises.
FeedDecode(f, dataref_name, value) ==
    IF f = "ToLiss" /\ dataref_name = TL_N_VertSlewKeys
    THEN [ok |-> TRUE, v |-> Str(TL_process_slew_keys(value))]
    ELSE IF f \in {"ToLiss", "Zibo"} \/ value.t = "str"
    THEN Only({Decoded(text) : text \in {DecodeText(value)}})
    ELSE [ok |-> TRUE, v |-> value]

\* What the Display Sender builds from a snapshot.  Result: [ok, json].
Generate(f, snapshot) ==
    CASE f = "ToLiss" -> [ok |-> TRUE, json |-> TL_generate_display_json(snapshot)]
      [] f = "Zibo" -> Z_get_display_json(snapshot)
      [] f = "FlightFactor" -> FF_generate_display_json(snapshot)
      [] f = "XCrafts" -> XC_generate_display_json(snapshot)

\* ToLiss and Zibo compare and adopt inside the loop over the items, the
\* other two once after it
PerKey(f) == f \in {"ToLiss", "Zibo"}

Init ==
    /\ family \in Families
    /\ heap = <<>>
    /\ last_known_values = NoRef
    /\ new_values = NoRef
    /\ dataref_map = <<>>
    /\ pending = <<>>
    /\ fdPc = "start"
    /\ queue = <<>>
    /\ values = NoRef
    /\ display_json = <<>>
    /\ dsPc = "connect"
    /\ msgs = 0 /\ fails = 0 /\ closes = 0
    /\ conns = 0 /\ catalogConn = 0
    /\ enqLog = <<>> /\ sentLog = <<>> /\ sentFrames = <<>>
    /\ lastFailed = NoRef /\ gets = 0
    /\ msg = NoData /\ msgStart = <<>> /\ enqAtStart = 0
    /\ device_candidates = <<1, 2>>
    /\ available_devices = <<>>
    /\ tasks = <<>>
    /\ queues = <<>>
    /\ held = [device \in CduDevice |-> <<>>]
    /\ probed = [device \in CduDevice |-> "no"]
    /\ puts = [device \in CduDevice |-> 0]


\* ------------------------------------------------------------ Feed Client
\* handle_datarefs up to the connect loop: the catalog is fetched and
\* last_known_values is created, once, before the first connection.
FeedStartWith(catalog) ==
    /\ fdPc = "start"
    /\ dataref_map' = catalog
    /\ heap' = Append(heap, <<>>)
    /\ last_known_values' = Len(heap) + 1
    /\ catalogConn' = conns + 1
    /\ fdPc' = "connect"
    /\ UNCHANGED <<family, new_values, pending, queue, dispVars, countVars,
                   conns, enqLog, sendHist, msgHist>>
    /\ UNCHANGED devVars

FeedStart == FeedStartWith(Catalog(family))

\* async for websocket in websockets.connect(...): a connection is made
FeedConnect ==
    /\ fdPc = "connect"
    /\ conns' = conns + 1
    /\ fdPc' = "subscribe"
    /\ UNCHANGED <<family, heap, last_known_values, new_values, dataref_map,
                   pending, queue, dispVars, countVars, catalogConn, enqLog,
                   sendHist, msgHist>>
    /\ UNCHANGED devVars

\* the subscribe request for the ids of dataref_map is sent
FeedSubscribe ==
    /\ fdPc = "subscribe"
    /\ fdPc' = "recv"
    /\ UNCHANGED <<family, heap, last_known_values, new_values, dataref_map,
                   pending, queue, dispVars, countVars, connVars, enqLog,
                   sendHist, msgHist>>
    /\ UNCHANGED devVars

\* websocket.send or websocket.recv raises ConnectionClosed: the except
\* clause continues the connect loop
FeedClosed ==
    /\ fdPc \in {"subscribe", "recv"}
    /\ closes < MaxFeedClose
    /\ closes' = closes + 1
    /\ fdPc' = "connect"
    /\ UNCHANGED <<family, heap, last_known_values, new_values, dataref_map,
                   pending, queue, dispVars, msgs, fails, connVars, enqLog,
                   sendHist, msgHist>>
    /\ UNCHANGED devVars

\* message = await websocket.recv(): a message without "data" is skipped,
\* for any other new_values = dict(last_known_values) and the loop over
\* data["data"].items() starts
FeedRecvOf(m) ==
    /\ fdPc = "recv"
    /\ msgs' = msgs + 1
    /\ msg' = m
    /\ msgStart' = heap[last_known_values]
    /\ enqAtStart' = Len(enqLog)
    /\ IF m.hasData
       THEN /\ heap' = Append(heap, heap[last_known_values])
            /\ new_values' = Len(heap) + 1
            /\ pending' = m.items
            /\ fdPc' = "loop"
       ELSE UNCHANGED <<heap, new_values, pending, fdPc>>
    /\ UNCHANGED <<family, last_known_values, dataref_map, queue, dispVars,
                   fails, closes, connVars, enqLog, sendHist>>
    /\ UNCHANGED devVars

FeedRecv ==
    /\ msgs < MaxMsgs
    /\ \E m \in Messages(family) : FeedRecvOf(m)

\* if new_values == last_known_values: continue
\* last_known_values = new_values; await queue.put(new_values)
\* on the heap h, as a conjunct of the step that reaches these lines
CompareAndPut(h) ==
    IF Changed(h[new_values], h[last_known_values])
    THEN /\ ~QueueFull(queue)
         /\ last_known_values' = new_values
         /\ queue' = Append(queue, new_values)
         /\ enqLog' = Append(enqLog, new_values)
    ELSE UNCHANGED <<last_known_values, queue, enqLog>>

\* new_values[dataref_name] = <decoded value>, d = [ok, v] being the
\* decoding: an exception ends the task, else ToLiss and Zibo compare and
\* adopt at once
FeedStore(dataref_name, d) ==
    IF ~d.ok
    THEN /\ fdPc' = "raised"
         /\ UNCHANGED <<heap, last_known_values, queue, enqLog>>
    ELSE \E h \in {[heap EXCEPT ![new_values] = DictSet(@, dataref_name, d.v)]} :
            /\ heap' = h
            /\ fdPc' = fdPc
            /\ IF PerKey(family)
               THEN CompareAndPut(h)
               ELSE UNCHANGED <<last_known_values, queue, enqLog>>

\* One pass of the loop over data["data"].items().  No await suspends
\* between the passes, so the Display Sender does not run in between.
FeedItem ==
    /\ fdPc = "loop"
    /\ pending # <<>>
    /\ pending' = Tail(pending)
    /\ IF Head(pending).id \notin DOMAIN dataref_map
       THEN UNCHANGED <<heap, last_known_values, queue, enqLog, fdPc>>
       ELSE \E d \in {FeedDecode(family, dataref_map[Head(pending).id],
                                 Head(pending).value)} :
                FeedStore(dataref_map[Head(pending).id], d)
    /\ UNCHANGED <<family, new_values, dataref_map, dispVars, countVars,
                   connVars, sendHist, msgHist>>
    /\ UNCHANGED devVars

\* The loop over the items is over: FlightFactor and X-Crafts compare and
\* adopt here, then every script is back at websocket.recv().
FeedEndMsg ==
    /\ fdPc = "loop"
    /\ pending = <<>>
    /\ IF PerKey(family)
       THEN UNCHANGED <<last_known_values, queue, enqLog>>
       ELSE CompareAndPut(heap)
    /\ fdPc' = "recv"
    /\ UNCHANGED <<family, heap, new_values, dataref_map, pending, dispVars,
                   countVars, connVars, sendHist, msgHist>>
    /\ UNCHANGED devVars

\* --------------------------------------------------------- Display Sender
\* The Display Sender runs only while the Feed Client is suspended.
FeedSuspended == fdPc # "loop"

\* async for websocket in websockets.connect(...): a connection is made
DispConnect ==
    /\ FeedSuspended
    /\ dsPc = "connect"
    /\ dsPc' = "get"
    /\ UNCHANGED <<family, feedVars, queue, values, display_json, countVars,
                   connVars, enqLog, sendHist, msgHist>>
    /\ UNCHANGED devVars

\* generate_display_json(device, values) of X-Crafts, r = [ok, json] being
\* its outcome: the send is commented out, so the loop is back at
\* queue.get() unless the decoder raised
DispTranslated(r) ==
    /\ dsPc' = IF r.ok THEN "get" ELSE "raised"
    /\ display_json' = IF r.ok THEN r.json ELSE display_json

\* The frame of ToLiss, Zibo and FlightFactor is built, r = [ok, json]
\* being the outcome: the send starts unless the decoder raised.
DispBuilt(r) ==
    /\ dsPc' = IF r.ok THEN "send" ELSE "raised"
    /\ display_json' = IF r.ok THEN r.json ELSE display_json

\* values = await queue.get() returns the head of the queue.  ToLiss, Zibo
\* and FlightFactor build the frame at once and start the send; a decoder
\* that raises ends the task.  X-Crafts builds its frame after the rate
\* limit, which may or may not suspend it in asyncio.sleep first.
DispGet ==
    /\ FeedSuspended
    /\ dsPc = "get"
    /\ queue # <<>>
    /\ values' = Head(queue)
    /\ queue' = Tail(queue)
    /\ gets' = gets + 1
    /\ lastFailed' = NoRef
    /\ \E r \in {Generate(family, heap[Head(queue)])} :
          IF family = "XCrafts"
          THEN \/ dsPc' = "sleep" /\ display_json' = display_json
               \/ DispTranslated(r)
          ELSE DispBuilt(r)
    /\ UNCHANGED <<family, feedVars, countVars, connVars, enqLog, sentLog,
                   sentFrames, msgHist>>
    /\ UNCHANGED devVars

\* X-Crafts after asyncio.sleep
DispWake ==
    /\ FeedSuspended
    /\ dsPc = "sleep"
    /\ \E r \in {Generate(family, heap[values])} : DispTranslated(r)
    /\ UNCHANGED <<family, feedVars, queue, values, countVars, connVars,
                   enqLog, sendHist, msgHist>>
    /\ UNCHANGED devVars

\* await websocket.send(display_json) returns
DispSendOk ==
    /\ FeedSuspended
    /\ dsPc = "send"
    /\ sentLog' = Append(sentLog, values)
    /\ sentFrames' = Append(sentFrames, display_json)
    /\ dsPc' = "get"
    /\ UNCHANGED <<family, feedVars, queue, values, display_json, countVars,
                   connVars, enqLog, lastFailed, gets, msgHist>>
    /\ UNCHANGED devVars

\* await websocket.send(display_json) raises ConnectionClosed:
\* await queue.put(values); break
DispSendFail ==
    /\ FeedSuspended
    /\ dsPc = "send"
    /\ fails < MaxFail
    /\ ~QueueFull(queue)
    /\ fails' = fails + 1
    /\ queue' = Append(queue, values)
    /\ lastFailed' = values
    /\ dsPc' = "connect"
    /\ UNCHANGED <<family, feedVars, values, display_json, msgs, closes,
                   connVars, enqLog, sentLog, sentFrames, gets, msgHist>>
    /\ UNCHANGED devVars

\* ------------------------------------------------------------------- main
\* asyncio.gather in main: the exception of a task that raised leaves
\* main, and asyncio.run cancels the task that is left.
MainExit ==
    /\ FeedSuspended
    /\ \/ fdPc = "raised" /\ dsPc \notin {"raised", "cancelled"}
       \/ dsPc = "raised" /\ fdPc \notin {"raised", "cancelled"}
    /\ fdPc' = IF fdPc = "raised" THEN fdPc ELSE "cancelled"
    /\ dsPc' = IF dsPc = "raised" THEN dsPc ELSE "cancelled"
    /\ UNCHANGED <<family, heap, last_known_values, new_values, dataref_map,
                   pending, queue, values, display_json, countVars, connVars,
                   enqLog, sendHist, msgHist>>
    /\ UNCHANGED devVars

Next ==
    \/ FeedStart
    \/ FeedConnect
    \/ FeedSubscribe
    \/ FeedClosed
    \/ FeedRecv
    \/ FeedItem
    \/ FeedEndMsg
    \/ DispConnect
    \/ DispGet
    \/ DispWake
    \/ DispSendOk
    \/ DispSendFail
    \/ MainExit

Spec == Init /\ [][Next]_vars

\* The event loop of asyncio runs every task that is ready: the Feed
\* Client goes through the message it received, the Display Sender takes
\* what waits in the queue, and main leaves when a task has raised.  The
\* connection to the display is made in the end and a send that is not
\* cut by ConnectionClosed returns.
FairSpec ==
    /\ Spec
    /\ WF_vars(FeedItem \/ FeedEndMsg)
    /\ WF_vars(DispConnect)
    /\ WF_vars(DispGet)
    /\ WF_vars(DispSendOk)
    /\ WF_vars(MainExit)

\* ------------------------------------------- the decoders on every line
\* The scripts with the catalogs of LineCatalogs and the messages of
\* LineMessages, on connections that stay open.
FeedStartLines == \E catalog \in LineCatalogs(family) : FeedStartWith(catalog)

FeedRecvLines ==
    /\ msgs < MaxLineMsgs
    /\ \E m \in LineMessages(family) : FeedRecvOf(m)

DecodeNext ==
    \/ FeedStartLines
    \/ FeedConnect
    \/ FeedSubscribe
    \/ FeedRecvLines
    \/ FeedItem
    \/ FeedEndMsg
    \/ DispConnect
    \/ DispGet
    \/ DispWake
    \/ DispSendOk
    \/ MainExit

DecodeSpec == Init /\ [][DecodeNext]_vars

\* ------------------------------------------------ the devices of X-Crafts
\* main of X-Crafts: the probes of get_available_devices, the queue and
\* the two tasks main creates for each available device, and the tasks at
\* their queue.  A snapshot is held as [by, n]: the n-th dict the Feed
\* Client of device "by" has put on the queue it was given.
pipelineVars == <<family, feedVars, queue, dispVars, countVars, connVars,
                  enqLog, sendHist, msgHist>>

\* get_available_devices, one pass of its loop: the connection to the
\* endpoint of the device is made and the device appended, or connect
\* raises WebSocketException and the loop continues
ProbeDevice ==
    /\ device_candidates # <<>>
    /\ device_candidates' = Tail(device_candidates)
    /\ \E accepted \in BOOLEAN :
        /\ probed' = [probed EXCEPT ![Head(device_candidates)] =
                         IF accepted THEN "accepted" ELSE "refused"]
        /\ available_devices' =
              IF accepted THEN Append(available_devices, Head(device_candidates))
              ELSE available_devices
    /\ UNCHANGED <<pipelineVars, tasks, queues, held, puts>>

\* one queue for all the devices: the first that was created
FirstQueue(qs) == 1

\* queue = asyncio.Queue() in the loop of main: a new object, whose
\* reference is the next of qs
NewQueue(qs) == Len(qs) + 1

\* main, one pass of its loop over available_devices: a queue is created
\* and given, with the device, to the two tasks created for the device
CreateTriple ==
    /\ device_candidates = <<>>
    /\ Len(tasks) < 2 * Len(available_devices)
    /\ \E device \in {available_devices[Len(tasks) \div 2 + 1]} :
        /\ queues' = Append(queues, <<>>)
        /\ tasks' = tasks \o
              <<[fn |-> "handle_dataref_updates", queue |-> NewQueue(queues),
                 device |-> device],
                [fn |-> "handle_device_update", queue |-> NewQueue(queues),
                 device |-> device]>>
    /\ UNCHANGED <<pipelineVars, device_candidates, available_devices, held,
                   probed, puts>>

\* main is at asyncio.gather: the tasks run
AtGather ==
    device_candidates = <<>> /\ Len(tasks) = 2 * Len(available_devices)

\* handle_dataref_updates(queue, device), a message that changed the
\* snapshot: await queue.put(new_values) on the queue of the task
DevFeedPut ==
    /\ AtGather
    /\ \E i \in 1..Len(tasks) :
        /\ tasks[i].fn = "handle_dataref_updates"
        /\ puts[tasks[i].device] < MaxDevPuts
        /\ puts' = [puts EXCEPT ![tasks[i].device] = @ + 1]
        /\ queues' = [queues EXCEPT ![tasks[i].queue] =
                         Append(@, [by |-> tasks[i].device,
                                    n |-> puts[tasks[i].device] + 1])]
    /\ UNCHANGED <<pipelineVars, device_candidates, available_devices, tasks,
                   held, probed>>

\* handle_device_update(queue, device): values = await queue.get() on the
\* queue of the task.  The except clause that puts values back is not
\* reached: with the send commented out nothing in the try block raises
\* ConnectionClosed.
DevGet ==
    /\ AtGather
    /\ \E i \in 1..Len(tasks) :
        /\ tasks[i].fn = "handle_device_update"
        /\ queues[tasks[i].queue] # <<>>
        /\ held' = [held EXCEPT ![tasks[i].device] =
                       <<Head(queues[tasks[i].queue])>>]
        /\ queues' = [queues EXCEPT ![tasks[i].queue] = Tail(@)]
    /\ UNCHANGED <<pipelineVars, device_candidates, available_devices, tasks,
                   probed, puts>>

DeviceInit == Init /\ family = "XCrafts"

DeviceNext ==
    \/ ProbeDevice
    \/ CreateTriple
    \/ DevFeedPut
    \/ DevGet

DeviceSpec == DeviceInit /\ [][DeviceNext]_vars

\* ================================================================ claims

\* C1: in ToLiss, Zibo and FlightFactor, when the send of snapshot S fails
\* with connection-closed, the next snapshot the Display Sender dequeues
\* is S, whatever else waits in the queue.  lastFailed holds S from the
\* failed send until the next dequeue.  The code puts S at the tail of
\* the queue, so a snapshot that was already waiting is dequeued first.
C1_RequeuedIsNextDequeued ==
    [][(lastFailed # NoRef /\ gets' = gets + 1) => values' = lastFailed]_vars

\* C2: in ToLiss, Zibo and FlightFactor every snapshot the Feed Client has
\* enqueued is in the queue, or held by the Display Sender for a send that
\* has not finished, or has been sent.  A snapshot whose frame cannot be
\* built is taken off the queue by a Display Sender that then ends (C9).
C2_NoSnapshotDropped ==
    family \in {"ToLiss", "Zibo", "FlightFactor"} =>
        \A i \in 1..Len(enqLog) :
            \/ \E j \in 1..Len(queue) : queue[j] = enqLog[i]
            \/ values = enqLog[i] /\ dsPc = "send"
            \/ \E j \in 1..Len(sentLog) : sentLog[j] = enqLog[i]

\* C3: snapshots are sent in the order the Feed Client enqueued them: no
\* snapshot is sent after one that was enqueued later than it.
C3_SentInEnqueueOrder ==
    \A i, j \in 1..Len(sentLog) :
        i < j =>
            \A a, b \in 1..Len(enqLog) :
                (enqLog[a] = sentLog[i] /\ enqLog[b] = sentLog[j]) => a <= b

\* C4: no two consecutive frames sent to the display hold the same grid.
C4_NoDuplicateFrames ==
    \A i \in 1..(Len(sentFrames) - 1) : sentFrames[i] # sentFrames[i + 1]

\* C5: the Feed Client is never blocked by the display side: while it is
\* at websocket.recv() with a message to come, or inside the loop over a
\* message, its next step is enabled, whatever the state of the Display
\* Sender and the length of the queue.
FeedStep == FeedRecv \/ FeedItem \/ FeedEndMsg

C5_FeedNeverBlocked ==
    ((fdPc = "recv" /\ msgs < MaxMsgs) \/ fdPc = "loop") => ENABLED FeedStep

\* C5 happens: the Feed Client has enqueued a snapshot behind one that
\* waits, while the Display Sender was disconnected after a failed send.
C5_Witness ==
    /\ dsPc = "connect"
    /\ lastFailed # NoRef
    /\ Len(queue) >= 2
    /\ queue[Len(queue)] = enqLog[Len(enqLog)]
    /\ queue[Len(queue)] # lastFailed
    /\ fdPc = "recv"

\* C6: change detection is idempotent.  When a message has been processed
\* (the loop over its items is left for websocket.recv()), a candidate
\* equal to the snapshot the message found has enqueued nothing and left
\* the snapshot as it was; a candidate that differs has been enqueued
\* once and is the snapshot.  A message without data enqueues nothing.
C6_ChangeDetection ==
    [][/\ (fdPc = "loop" /\ fdPc' = "recv") =>
            IF DictEq(heap'[new_values'], msgStart)
            THEN /\ Len(enqLog') = enqAtStart
                 /\ DictEq(heap'[last_known_values'], msgStart)
            ELSE /\ Len(enqLog') = enqAtStart + 1
                 /\ enqLog'[Len(enqLog')] = new_values'
                 /\ last_known_values' = new_values'
       /\ (fdPc = "recv" /\ fdPc' = "recv") =>
            /\ enqLog' = enqLog
            /\ heap'[last_known_values'] = heap[last_known_values]
      ]_vars

\* C6 happens: the second of two messages carried values for known ids
\* only and left the snapshot as the first had made it: one queue entry.
C6_Witness ==
    /\ msgs = 2
    /\ fdPc = "recv"
    /\ msg.hasData
    /\ \A j \in 1..Len(msg.items) : msg.items[j].id \in DOMAIN dataref_map
    /\ msgStart # <<>>
    /\ enqAtStart = 1
    /\ Len(enqLog) = 1

\* C7: whenever the Feed Client makes a connection, its snapshot is empty.
\* The code creates last_known_values once, before the connect loop, and
\* the except clause of ConnectionClosed leaves it as it is.
C7_SnapshotEmptyOnConnect ==
    [][conns' # conns => heap'[last_known_values'] = <<>>]_vars

\* C8: the catalog the Feed Client subscribes and looks ids up with was
\* fetched for the connection it is on.  The code fetches the catalog
\* once, before the connect loop.
C8_CatalogOfThisConnection ==
    fdPc \in {"subscribe", "recv", "loop"} => catalogConn = conns

\* C9: no task ends on a decode error.  In the code a value that does not
\* decode raises out of handle_datarefs, and a snapshot the decoder cannot
\* assemble raises out of the Display Sender.
C9_NoTaskRaises == fdPc # "raised" /\ dsPc # "raised"

\* C10: ToLiss, catalog entry 1 "AirbusFBW/MCDU1title1", an update that
\* decodes to "FUEL PRED ": the frame built from that snapshot holds
\* F,U,E,L,P,R,E,D in cells 0-8 of row 0 with the spaces left empty, every
\* populated cell with color "w" and size 0, and every other cell empty.
\* get_color returns the suffix "1" of the name for this dataref.
C10_TitleRowWhite ==
    (/\ family = "ToLiss"
     /\ dsPc = "send"
     /\ heap[values] =
          <<[k |-> TL_N_title1,
             v |-> Str(<<"F", "U", "E", "L", " ", "P", "R", "E", "D", " ">>)]>>)
    => display_json =
         DisplayJson(
             [i \in 1..(CDU_ROWS * CDU_COLUMNS) |->
                CASE i = 1 -> <<"F", "w", 0>>
                  [] i = 2 -> <<"U", "w", 0>>
                  [] i = 3 -> <<"E", "w", 0>>
                  [] i = 4 -> <<"L", "w", 0>>
                  [] i = 6 -> <<"P", "w", 0>>
                  [] i = 7 -> <<"R", "w", 0>>
                  [] i = 8 -> <<"E", "w", 0>>
                  [] i = 9 -> <<"D", "w", 0>>
                  [] OTHER -> <<>>])

\* the snapshot of X-Crafts whose only value is "011310RTE"
XC_RTE_Snapshot ==
    <<[k |-> XC_N_CDU_1_03,
       v |-> Str(<<"0", "1", "1", "3", "1", "0", "R", "T", "E">>)]>>

\* the Display Sender of X-Crafts has taken the "011310RTE" snapshot off the
\* queue and translated it
XC_RTE_Translated ==
    /\ family = "XCrafts"
    /\ gets >= 1
    /\ dsPc = "get"
    /\ values # NoRef
    /\ heap[values] = XC_RTE_Snapshot

GridRowOf ==
    {[name |-> TL_N_label(n), row |-> 2 * n - 1] : n \in 1..6} \cup
    {[name |-> TL_N_cont(n), row |-> 2 * n] : n \in 1..6} \cup
    {[name |-> Z_N_Line_X(n), row |-> 2 * n - 1] : n \in 1..6} \cup
    {[name |-> Z_N_Line_L(n), row |-> 2 * n] : n \in 1..6} \cup
    {[name |-> TL_N_title1, row |-> 0], [name |-> Z_N_Line00_L, row |-> 0],
     [name |-> TL_N_cont1g, row |-> 2], [name |-> Z_N_Line01_X, row |-> 1],
     [name |-> TL_N_VertSlewKeys, row |-> 13],
     [name |-> TL_N_spa, row |-> 13], [name |-> TL_N_spw, row |-> 13],
     [name |-> Z_N_Line_X(0), row |-> 0],
     [name |-> Z_N_Line_entry, row |-> 13]}

\* the dataref item addresses cell (row, col) of the grid: its text is not
\* blank, the spec gives it this row, and character col of the text is
\* there and is not a space
Addresses(item, row, col) ==
    /\ ~Blank(item.v.s)
    /\ [name |-> item.k, row |-> row] \in GridRowOf
    /\ col < Len(item.v.s)
    /\ item.v.s[col + 1] # " "

\* the Display Sender of ToLiss or Zibo has built the frame of the
\* snapshot it holds
LineFrameBuilt == family \in {"ToLiss", "Zibo"} /\ dsPc = "send"

\* C12: in the frame ToLiss and Zibo build from a snapshot, a cell is
\* populated exactly when a dataref of the snapshot addresses it: the
\* label dataref of line n addresses row 2n - 1 only, the content dataref
\* row 2n only, the title row 0 only, the extra-row datarefs row 13 only;
\* character i that is not a space addresses column i for i < 24, the
\* characters from 24 on address no cell.
C12_RowColumnPlacement ==
    LineFrameBuilt =>
        \A row \in 0..(CDU_ROWS - 1) : \A col \in 0..(CDU_COLUMNS - 1) :
            (display_json.Data[row * CDU_COLUMNS + col + 1] # <<>>)
                <=> \E j \in 1..Len(heap[values]) :
                        Addresses(heap[values][j], row, col)

\* C12 happens: a frame was built from a snapshot with a label of more
\* than 24 characters and a content text with spaces in it, for one of
\* the lines 2 to 6.
C12_Witness ==
    /\ LineFrameBuilt
    /\ Len(heap[values]) = 2
    /\ \E n \in 2..6 : heap[values][1].k \in {TL_N_label(n), Z_N_Line_X(n)}
    /\ Len(heap[values][1].v.s) > CDU_COLUMNS
    /\ Contains(heap[values][2].v.s, <<" ">>)
    /\ ~Blank(heap[values][2].v.s)

\* the grid or frame the decoder of script f makes of a snapshot
DecoderOutput(f, snapshot) ==
    IF f = "XCrafts" THEN XC_translate_values(snapshot)
    ELSE Generate(f, snapshot)

\* the snapshot without its datarefs of an empty or whitespace-only value
WithoutBlank(snapshot) ==
    SelectSeq(snapshot, LAMBDA e : ~(e.v.t = "str" /\ Blank(e.v.s)))

\* the Display Sender has decoded the snapshot it holds
SnapshotDecoded == values # NoRef /\ dsPc \in {"send", "get"}

\* C13: a dataref with an empty or whitespace-only value is skipped
\* entirely: what a decoder makes of a snapshot is what it makes of the
\* snapshot without its blank datarefs.  translate_values of X-Crafts
\* leaves its loop at a blank value, so the datarefs after it in the
\* snapshot populate no cell.
C13_BlankSkipped ==
    SnapshotDecoded =>
        DecoderOutput(family, heap[values])
            = DecoderOutput(family, WithoutBlank(heap[values]))

\* a list of 336 entries, each empty or a (char, color, size) triple
IsGrid(display_data) ==
    /\ Len(display_data) = CDU_ROWS * CDU_COLUMNS
    /\ \A i \in 1..Len(display_data) :
          \/ display_data[i] = <<>>
          \/ /\ Len(display_data[i]) = 3
             /\ display_data[i][3] \in 0..9

\* C14: every grid a decoder returns has exactly 336 entries, each empty
\* or a (char, color, size) triple: the frame ToLiss, Zibo and
\* FlightFactor have built for the send, and the grid translate_values
\* of X-Crafts returns for the snapshot the Display Sender holds.
C14_GridShape ==
    /\ (family # "XCrafts" /\ dsPc = "send") => IsGrid(display_json.Data)
    /\ (family = "XCrafts" /\ SnapshotDecoded) =>
          /\ XC_translate_values(heap[values]).ok
          /\ IsGrid(XC_translate_values(heap[values]).json)

\* C14 happens: ToLiss or Zibo have built a frame whose last row, the
\* slice from cell 312 on, is populated, from a snapshot that also holds
\* a text of more than 24 characters.
C14_Witness ==
    /\ LineFrameBuilt
    /\ \E col \in 1..CDU_COLUMNS :
          display_json.Data[(CDU_ROWS - 1) * CDU_COLUMNS + col] # <<>>
    /\ \E j \in 1..Len(heap[values]) :
          Len(heap[values][j].v.s) > CDU_COLUMNS

\* C15: an item is immutable once enqueued: no step changes the contents
\* of a snapshot the Feed Client has put on the queue.  ToLiss and Zibo
\* put new_values on the queue inside the loop over the items and go on
\* storing the remaining items of the message into the same dict.
C15_QueuedImmutable ==
    [][\A i \in 1..Len(enqLog) : heap'[enqLog[i]] = heap[enqLog[i]]]_vars

\* every id of the message m is absent from the catalog
OnlyUnknownIds(m) ==
    /\ m.hasData
    /\ m.items # <<>>
    /\ \A j \in 1..Len(m.items) : m.items[j].id \notin DOMAIN dataref_map

\* C16: ignored input leaves the state unchanged.  Receiving a message
\* without a data payload changes neither the snapshot nor the queue; the
\* pass of the loop for an id absent from the catalog changes neither the
\* candidate, the snapshot nor the queue and raises nothing, in a message
\* of unknown ids only and in a mixed one; and when a message of unknown
\* ids only has been processed the snapshot is the one it found and
\* nothing was enqueued.
C16_IgnoredInputNoEffect ==
    [][/\ (fdPc = "recv" /\ msgs' = msgs + 1 /\ ~msg'.hasData) =>
            /\ fdPc' = "recv"
            /\ heap'[last_known_values'] = heap[last_known_values]
            /\ queue' = queue
       /\ (fdPc = "loop" /\ pending # <<>>
             /\ Head(pending).id \notin DOMAIN dataref_map) =>
            /\ fdPc' = "loop"
            /\ heap'[new_values'] = heap[new_values]
            /\ heap'[last_known_values'] = heap[last_known_values]
            /\ queue' = queue
       /\ (fdPc = "loop" /\ fdPc' = "recv" /\ OnlyUnknownIds(msg)) =>
            /\ DictEq(heap'[last_known_values'], msgStart)
            /\ Len(enqLog') = enqAtStart
            /\ queue' = queue
      ]_vars

\* C16 happens: a message of unknown ids only has been processed after a
\* message that had made the snapshot non-empty.
C16_Witness ==
    /\ fdPc = "recv"
    /\ msgs = 2
    /\ OnlyUnknownIds(msg)
    /\ msgStart # <<>>
    /\ Len(enqLog) = enqAtStart

\* the tasks main has created with function fn for the device
TasksOf(fn, device) ==
    {i \in 1..Len(tasks) : tasks[i].fn = fn /\ tasks[i].device = device}

\* C17: multi-device isolation in main of X-Crafts.  Once main is at
\* asyncio.gather, a device has a Feed Client and a Display Sender, one of
\* each, exactly when its endpoint accepted the probe, and none
\* otherwise; the two tasks of a device have the same queue and the tasks
\* of different devices have different queues; and every snapshot in the
\* queue of a device, or taken off a queue by the Display Sender of a
\* device, was put there by the Feed Client of that device.
C17_DeviceIsolation ==
    /\ AtGather =>
          \A device \in CduDevice :
              \A fn \in {"handle_dataref_updates", "handle_device_update"} :
                  Cardinality(TasksOf(fn, device))
                      = IF probed[device] = "accepted" THEN 1 ELSE 0
    /\ \A i, j \in 1..Len(tasks) :
          (tasks[i].queue = tasks[j].queue) <=> (tasks[i].device = tasks[j].device)
    /\ \A i \in 1..Len(tasks) :
          \A k \in 1..Len(queues[tasks[i].queue]) :
              queues[tasks[i].queue][k].by = tasks[i].device
    /\ \A device \in CduDevice :
          held[device] # <<>> => held[device][1].by = device

\* C17 happens: both devices accepted the probe, the Display Sender of
\* each has taken a snapshot off its queue, and a snapshot of each waits.
C17_Witness ==
    /\ AtGather
    /\ \A device \in CduDevice :
          /\ probed[device] = "accepted"
          /\ held[device] # <<>>
    /\ \A q \in 1..Len(queues) : queues[q] # <<>>
    /\ Len(queues) = 2

\* C18: the Display Sender of X-Crafts delivers what it consumes: when it
\* is back at queue.get(), the snapshot it took off the queue has been
\* sent or is in the queue again.  In handle_device_update the send is
\* commented out and generate_display_json returns nothing to send.
C18_XCraftsDelivers ==
    (family = "XCrafts" /\ values # NoRef /\ dsPc = "get") =>
        \/ \E j \in 1..Len(sentLog) : sentLog[j] = values
        \/ \E j \in 1..Len(queue) : queue[j] = values

\* every snapshot the Feed Client has enqueued has been sent, and the
\* queue is empty
AllDelivered ==
    /\ queue = <<>>
    /\ \A i \in 1..Len(enqLog) : \E j \in 1..Len(sentLog) : sentLog[j] = enqLog[i]

\* C19: eventual delivery in ToLiss, Zibo and FlightFactor.  With both
\* tasks scheduled fairly and sends that succeed in the end, every
\* snapshot the Feed Client enqueues is eventually sent, and once the feed
\* has stopped producing the queue becomes and stays empty.  A task that
\* raises on a value it cannot decode (C9) ends main with snapshots that
\* are never sent.
C19_EventualDelivery ==
    <>[](family \in {"ToLiss", "Zibo", "FlightFactor"} => AllDelivered)

\* the snapshot overlaid with one update of a message: an id absent from
\* the catalog and a value that does not decode leave it as it is
OverlaidWith(snapshot, item) ==
    IF item.id \notin DOMAIN dataref_map THEN snapshot
    ELSE Only({IF d.ok THEN DictSet(snapshot, dataref_map[item.id], d.v)
               ELSE snapshot :
               d \in {FeedDecode(family, dataref_map[item.id], item.value)}})

\* the snapshot overlaid with the updates of a message from item j on
RECURSIVE OverlaidFrom(_, _, _)
OverlaidFrom(snapshot, items, j) ==
    IF j > Len(items) THEN snapshot
    ELSE OverlaidFrom(OverlaidWith(snapshot, items[j]), items, j + 1)

\* the snapshot the last message found, overlaid with all its updates
MessageOverlay == OverlaidFrom(msgStart, msg.items, 1)

\* the Display Sender holds the snapshot enqueued for the last message
HoldsLastMessage ==
    /\ Len(enqLog) = enqAtStart + 1
    /\ values = enqLog[Len(enqLog)]
    /\ dsPc \in {"send", "sleep", "get", "raised", "cancelled"}

\* C20: one enqueue per message and no partial snapshot.  A message has
\* caused at most one enqueue; the snapshot the Display Sender obtains for
\* a message is the snapshot the message found overlaid with all the
\* updates of known ids of the message, never with some of them only; and
\* when the message has been processed the snapshot of the Feed Client is
\* that overlay.  In ToLiss and Zibo the snapshot is on the queue from the
\* first update that changed it; an update that does not decode then ends
\* the Feed Client (C9) before the updates after it are stored, and the
\* Display Sender obtains the snapshot with the first updates only.
C20_OneEnqueueNoPartial ==
    /\ Len(enqLog) <= enqAtStart + 1
    /\ HoldsLastMessage => DictEq(heap[values], MessageOverlay)
    /\ (fdPc = "recv" /\ msgs >= 1) =>
          DictEq(heap[last_known_values], MessageOverlay)

\* the fields of a packed value: RR, CC and S of the prefix RR CC S K as
\* numbers, and the text after the prefix, stripped
PackedRR(value) == PyInt(Slice(value, 0, 2)).n
PackedCC(value) == PyInt(Slice(value, 2, 4)).n
PackedS(value) == PyInt(Slice(value, 4, 5)).n
PackedText(value) == Strip(Slice(value, 6, Len(value)))

\* the packed value addresses the cell with character k of its text: the
\* cell is (RR - 1) * 24 + (CC - 1) + k and the character is not a space
PackedAddresses(value, cell, k) ==
    /\ k < Len(PackedText(value))
    /\ k < CDU_COLUMNS
    /\ PackedText(value)[k + 1] # " "
    /\ cell = (PackedRR(value) - 1) * CDU_COLUMNS + (PackedCC(value) - 1) + k

\* the Display Sender of X-Crafts has translated a snapshot of values
\* that all have a prefix of six digits with RR in 1..14 and CC in 1..24
PackedTranslated ==
    /\ family = "XCrafts"
    /\ SnapshotDecoded
    /\ \A j \in 1..Len(heap[values]) :
          /\ Len(heap[values][j].v.s) >= 6
          /\ \A i \in 1..6 : IsDigit(heap[values][j].v.s[i])
          /\ PackedRR(heap[values][j].v.s) \in 1..CDU_ROWS
          /\ PackedCC(heap[values][j].v.s) \in 1..CDU_COLUMNS

\* C21: packed-prefix placement of X-Crafts.  The character at offset k
\* of the stripped text of a value RR CC S K T that is not a space is
\* written to cell (RR - 1) * 24 + (CC - 1) + k with size S, and no other
\* cell is written: the row and the column are taken from 1-based to
\* 0-based once, a text at RR = 01, CC = 01 starts at cell 0, and nothing
\* lands in the last cell of the grid by a negative index.  The code
\* writes to index + char_index - 1, one cell to the left.
C21_PackedPlacement ==
    PackedTranslated =>
        \A cell \in 0..(CDU_ROWS * CDU_COLUMNS - 1) :
            \/ /\ XC_translate_values(heap[values]).json[cell + 1] = <<>>
               /\ \A j \in 1..Len(heap[values]) : \A k \in 0..(CDU_COLUMNS - 1) :
                     ~PackedAddresses(heap[values][j].v.s, cell, k)
            \/ /\ XC_translate_values(heap[values]).json[cell + 1] # <<>>
               /\ \E j \in 1..Len(heap[values]) : \E k \in 0..(CDU_COLUMNS - 1) :
                     /\ PackedAddresses(heap[values][j].v.s, cell, k)
                     /\ XC_translate_values(heap[values]).json[cell + 1][3]
                          = PackedS(heap[values][j].v.s)

\* the datarefs process_cdu_line gets for loop row `row` of family f, in
\* the order of the snapshot
LineDatarefsOf(f, snapshot, row) ==
    IF f = "ToLiss"
    THEN TL_group_datarefs_by_line(snapshot, IF row > 0 THEN row \div 2 ELSE 0)
    ELSE Z_group_datarefs_by_line(snapshot, IF row > 0 THEN row \div 2 ELSE 0)

\* line_chars after the loop of process_cdu_line has taken the first j
\* datarefs of the line
OverlayPrefix(f, line_datarefs, j, row) ==
    IF f = "ToLiss"
    THEN TL_process_cdu_line(SubSeq(line_datarefs, 1, j), row)
    ELSE Z_process_cdu_line(SubSeq(line_datarefs, 1, j), row)

\* one pass of the loop body of process_cdu_line over line_chars
OverlayStep(f, line_chars, item, row) ==
    IF f = "ToLiss" THEN TL_OverlayItem(line_chars, item.k, item.v.s, row)
    ELSE Z_OverlayItem(line_chars, item.k, item.v.s, row)

\* one pass of the loop body over line_chars leaves column i (from 1)
\* alone where the text of the item has a space or has ended, and leaves
\* no populated column empty
StepKeepsCells(line_chars, item, after) ==
    \A i \in 1..CDU_COLUMNS :
        /\ (i > Len(item.v.s) \/ item.v.s[i] = " ") => after[i] = line_chars[i]
        /\ line_chars[i] # <<>> => after[i] # <<>>

\* the cell of the built frame that column i (from 1) of loop row `row`
\* is assigned to
FrameCell(row, i) ==
    display_json.Data[(IF row > 0 THEN row - 1 ELSE row) * CDU_COLUMNS + i]

\* C22: in process_cdu_line of ToLiss and Zibo a space never overwrites a
\* cell, and a cell populated by one dataref of a row stays populated
\* through every later dataref of the row: for every row of the frame the
\* Display Sender built and every dataref of that row, the columns where
\* the dataref's text has a space or has ended keep what they held,
\* no populated column becomes empty, and every column populated at any
\* point of the loop is populated in the frame.
C22_SparseOverlay ==
    LineFrameBuilt =>
        \A row \in (0..CDU_ROWS) \ {1} :
            \A line_datarefs \in {LineDatarefsOf(family, heap[values], row)} :
                \A j \in 1..Len(line_datarefs) :
                    \A line_chars \in
                          {OverlayPrefix(family, line_datarefs, j - 1, row)} :
                        \A after \in {OverlayStep(family, line_chars,
                                                  line_datarefs[j], row)} :
                            /\ StepKeepsCells(line_chars, line_datarefs[j],
                                              after)
                            /\ \A i \in 1..CDU_COLUMNS :
                                  after[i] # <<>> => FrameCell(row, i) # <<>>

\* C22 happens: a frame was built from two datarefs of one row, the first
\* populated a column where the text of the second has a space, and the
\* second replaced the first in another column.
C22_Witness ==
    /\ LineFrameBuilt
    /\ \E row \in {0, CDU_ROWS} :
          \E line_datarefs \in {LineDatarefsOf(family, heap[values], row)} :
              /\ Len(line_datarefs) >= 2
              /\ \E first \in {OverlayPrefix(family, line_datarefs, 1, row)} :
                    \E i, i2 \in 1..CDU_COLUMNS :
                        /\ first[i] # <<>>
                        /\ i <= Len(line_datarefs[2].v.s)
                        /\ line_datarefs[2].v.s[i] = " "
                        /\ FrameCell(row, i) = first[i]
                        /\ first[i2] # <<>>
                        /\ FrameCell(row, i2) # first[i2]

\* The 24 characters process_slew_keys returns for the number n, columns
\* counted from 0: the up arrow of 1 and of 2 in column 22, the down arrow
\* of 1 and of 3 in column 23, spaces everywhere else.
SlewFixedColumns(n) ==
    [i \in 1..CDU_COLUMNS |->
        IF i = 23 /\ n \in {1, 2} THEN TL_UP_ARROW
        ELSE IF i = 24 /\ n \in {1, 3} THEN TL_DOWN_ARROW
        ELSE " "]

\* The same with the last glyph of every result in column 23: the up
\* arrow of 2 in column 23, column 22 a space.
SlewLastColumn(n) ==
    [i \in 1..CDU_COLUMNS |->
        IF i = 23 /\ n = 1 THEN TL_UP_ARROW
        ELSE IF i = 24 /\ n = 2 THEN TL_UP_ARROW
        ELSE IF i = 24 /\ n \in {1, 3} THEN TL_DOWN_ARROW
        ELSE " "]

\* the item of the message in progress that the Feed Client's loop took
\* last
LastTaken == msg.items[Len(msg.items) - Len(pending)]

\* the Feed Client's loop has just taken a number for
\* AirbusFBW/MCDU1VertSlewKeys
SlewTaken ==
    /\ family = "ToLiss" /\ fdPc = "loop"
    /\ Len(pending) < Len(msg.items)
    /\ LastTaken.id \in DOMAIN dataref_map
    /\ dataref_map[LastTaken.id] = TL_N_VertSlewKeys
    /\ LastTaken.value.t = "num"

\* the snapshot without its slew-key dataref
WithoutSlew(snapshot) ==
    SelectSeq(snapshot, LAMBDA e : e.k # TL_N_VertSlewKeys)

\* a dataref after the slew keys in the snapshot writes column i (from 1)
\* of the last row
CoveredLater(snapshot, i) ==
    \E j, k \in 1..Len(snapshot) :
        /\ snapshot[j].k = TL_N_VertSlewKeys /\ k > j
        /\ TL_line_num(snapshot[k].k) = 7
        /\ ~Blank(snapshot[k].v.s)
        /\ i <= Len(snapshot[k].v.s) /\ snapshot[k].v.s[i] # " "

\* The frame built from a snapshot with the slew keys in it is the frame
\* of the snapshot without them, except that every arrow of the stored
\* text that no later dataref writes over is in its column of the last
\* grid row (cells 312..335), with color "w".
SlewRendered ==
    (family = "ToLiss" /\ dsPc = "send"
       /\ DictHas(heap[values], TL_N_VertSlewKeys)) =>
        \A t \in {DictGet(heap[values], TL_N_VertSlewKeys).s} :
            \A base \in {TL_generate_display_json(
                             WithoutSlew(heap[values])).Data} :
                \A cell \in 1..(CDU_ROWS * CDU_COLUMNS) :
                    IF /\ cell > (CDU_ROWS - 1) * CDU_COLUMNS
                       /\ t[cell - (CDU_ROWS - 1) * CDU_COLUMNS] # " "
                       /\ ~CoveredLater(heap[values],
                                        cell - (CDU_ROWS - 1) * CDU_COLUMNS)
                    THEN /\ display_json.Data[cell] # <<>>
                         /\ display_json.Data[cell][1]
                              = t[cell - (CDU_ROWS - 1) * CDU_COLUMNS]
                         /\ display_json.Data[cell][2] = "w"
                    ELSE display_json.Data[cell] = base[cell]

\* the slew-key claim for one table of stored texts
SlewDecoding(stored(_)) ==
    /\ SlewTaken =>
          /\ DictHas(heap[new_values], TL_N_VertSlewKeys)
          /\ DictGet(heap[new_values], TL_N_VertSlewKeys)
               = Str(stored(LastTaken.value.n))
    /\ SlewRendered

\* C23 as claimed: for every number the Feed Client stores 24 characters,
\* 1 the up arrow in column 22 and the down arrow in column 23, 2 the up
\* arrow only, 3 the down arrow only, any other number 24 spaces, the last
\* glyph of each result in column 23; the arrows are rendered only in the
\* last grid row with color "w" and a blank result populates no cell.
C23_SlewKeysLastColumn == SlewDecoding(SlewLastColumn)

\* C23: for every number the Feed Client stores 24 characters, the up
\* arrow of 1 and of 2 in column 22, the down arrow of 1 and of 3 in column
\* 23 (column 23 of the result for 2 is a space), any other number 24
\* spaces; the arrows are rendered only in the last grid row (cells
\* 312..335) with color "w" and a blank result populates no cell.
C23_SlewKeysFixedColumns == SlewDecoding(SlewFixedColumns)

\* C23 happens: the Feed Client stored the text of the number 2 and the
\* Display Sender built its frame, the up arrow in cell 334 and nothing in
\* cell 335.
C23_Witness ==
    /\ family = "ToLiss" /\ dsPc = "send"
    /\ DictHas(heap[values], TL_N_VertSlewKeys)
    /\ DictGet(heap[values], TL_N_VertSlewKeys) = Str(SlewFixedColumns(2))
    /\ display_json.Data[CDU_ROWS * CDU_COLUMNS - 1] = <<TL_UP_ARROW, "w", 0>>
    /\ display_json.Data[CDU_ROWS * CDU_COLUMNS] = <<>>

\* the snapshots that are equal to this one as mappings: the same datarefs
\* with the same values, in every order of first arrival
Reordered(snapshot) ==
    {[i \in 1..Len(snapshot) |-> snapshot[p[i]]] :
        p \in Permutations(1..Len(snapshot))}

\* C24: the decode depends only on the name-to-value mapping: what the
\* decoder makes of the snapshot the Display Sender holds is what it makes
\* of every snapshot equal to it as a mapping, whatever the order the
\* datarefs first arrived in, also when two datarefs of one row have
\* characters that are not spaces in the same column.
C24_OrderIndependent ==
    SnapshotDecoded =>
        \A out \in {DecoderOutput(family, heap[values])} :
            \A other \in Reordered(heap[values]) :
                /\ DictEq(other, heap[values])
                /\ DecoderOutput(family, other) = out

====
